---------------------------- MODULE Spec2Model ----------------------------
(***************************************************************************)
(* A model of pkg/repos/runtimes/golang/golang.go: the Go toolchain cache  *)
(* (getRuntime), the prebuilt-binary path (Binary, getLatestRelease,       *)
(* getChecksum, downloadBin) and the helpers they use.                     *)
(*                                                                         *)
(* Strings the code parses are sequences of one-character strings, so that *)
(* prefix tests, trimming and splitting are computed as the code computes  *)
(* them.                                                                   *)
(***************************************************************************)
EXTENDS Integers, Sequences, FiniteSets, TLC

(***************************************************************************)
(* Bounds of the model.                                                    *)
(***************************************************************************)
\* concurrent callers of getRuntime
NProcs == 2
\* getRuntime invocations in one behaviour, over all callers
MaxCalls == 3
\* files in the toolchain archive
NFiles == 2

Procs == 1..NProcs
Files == 1..NFiles

(***************************************************************************)
(* package strings, on sequences of characters.                            *)
(***************************************************************************)
HasPrefix(s, prefix) ==
    /\ Len(s) >= Len(prefix)
    /\ SubSeq(s, 1, Len(prefix)) = prefix

HasSuffix(s, suffix) ==
    /\ Len(s) >= Len(suffix)
    /\ SubSeq(s, Len(s) - Len(suffix) + 1, Len(s)) = suffix

TrimPrefix(s, prefix) ==
    IF HasPrefix(s, prefix) THEN SubSeq(s, Len(prefix) + 1, Len(s)) ELSE s

TrimSuffix(s, suffix) ==
    IF HasSuffix(s, suffix) THEN SubSeq(s, 1, Len(s) - Len(suffix)) ELSE s

\* strings.Index + 1: the first position where sep starts in s, 0 when none
Index(s, sep) ==
    LET hits == {i \in 1..(Len(s) - Len(sep) + 1) :
                    SubSeq(s, i, i + Len(sep) - 1) = sep}
    IN  IF hits = {} THEN 0 ELSE CHOOSE i \in hits : \A j \in hits : i <= j

RECURSIVE Split(_, _)
Split(s, sep) ==
    LET i == Index(s, sep)
    IN  IF i = 0 THEN <<s>>
        ELSE <<SubSeq(s, 1, i - 1)>> \o Split(SubSeq(s, i + Len(sep), Len(s)), sep)

IsSpace(c) == c \in {" ", "\t", "\r", "\n"}

RECURSIVE TrimLeft(_)
TrimLeft(s) ==
    IF s # <<>> /\ IsSpace(Head(s)) THEN TrimLeft(Tail(s)) ELSE s

RECURSIVE TrimRight(_)
TrimRight(s) ==
    IF s # <<>> /\ IsSpace(s[Len(s)]) THEN TrimRight(SubSeq(s, 1, Len(s) - 1)) ELSE s

TrimSpace(s) == TrimRight(TrimLeft(s))

\* bufio.Scanner with ScanLines: the lines of data, without their line ends;
\* a final empty line is no line
ScanLines(data) ==
    LET raw  == Split(data, <<"\n">>)
        kept == IF raw[Len(raw)] = <<>> THEN SubSeq(raw, 1, Len(raw) - 1) ELSE raw
    IN  [i \in 1..Len(kept) |-> TrimSuffix(kept[i], <<"\r">>)]

(***************************************************************************)
(* The embedded release index and its lookup.                              *)
(***************************************************************************)
GOOS == <<"l", "i", "n", "u", "x">>
GOARCH == <<"a", "m", "d", "6", "4">>

downloadURL == <<"h", "t", "t", "p", "s", ":", "/", "/", "g", "o", ".", "d", "e", "v", "/", "d", "l", "/">>

\* digests.txt: "<digest>  <file>" per line
releasesData ==
    <<"d", "1", " ", " ", "g", "o", "1", ".", "l", "i", "n", "u", "x", "-", "a", "m", "d", "6", "4", ".", "t", "g", "z", "\n",
      "d", "2", " ", " ", "g", "o", "1", ".", "l", "i", "n", "u", "x", "-", "a", "r", "m", ".", "t", "g", "z", "\n",
      "d", "3", " ", " ", "2", ".", "l", "i", "n", "u", "x", "-", "a", "m", "d", "6", "4", ".", "t", "g", "z", "\n">>

\* the versions a Runtime is built with: the index has go1.linux-amd64.tgz for
\* the first, and for the second a row without the "go" in front
Versions == {<<"1">>, <<"2">>}

\* ID, without the "go" in front
IDPlain(Version) == Version

\* lines 39-41
ID(Version) == <<"g", "o">> \o Version

\* line 300
releaseKey(Version, goos, goarch) == ID(Version) \o <<".">> \o goos \o <<"-">> \o goarch

NoRow == [ok |-> FALSE, panic |-> FALSE, url |-> <<>>, digest |-> <<>>]

\* lines 301-307, [ok, panic, url, digest]: the rows from the i-th on are read
\* in order up to the first whose file starts with key; line[1] of a row
\* without the two spaces is out of range, and the program panics
RECURSIVE scanFrom(_, _, _)
scanFrom(lines, key, i) ==
    IF i > Len(lines) THEN NoRow
    ELSE LET line == Split(lines[i], <<" ", " ">>)
         IN  IF Len(line) < 2 THEN [NoRow EXCEPT !.panic = TRUE]
             ELSE IF HasPrefix(TrimSpace(line[2]), key)
             THEN [ok |-> TRUE, panic |-> FALSE,
                   url |-> downloadURL \o TrimSpace(line[2]),
                   digest |-> TrimSpace(line[1])]
             ELSE scanFrom(lines, key, i + 1)

\* lines 299-309
scanReleases(data, key) == scanFrom(ScanLines(data), key, 1)

\* lines 298-310, with the embedded index on this platform
getReleaseAndDigest(Version) == scanReleases(releasesData, releaseKey(Version, GOOS, GOARCH))

\* the lookup, once per version
Resolved == [v \in Versions |-> getReleaseAndDigest(v)]

\* hash.ID: the fingerprint of (url, digest)
hashID(url, sha) == <<url, sha>>

\* filepath.Join(cwd, "golang", hash.ID(url, sha))
targetPath(cwd, url, sha) == <<cwd, "golang", hashID(url, sha)>>

binDir(rel) == rel \o <<"go", "bin">>

dataRoot == "dataRoot"

(***************************************************************************)
(* State.                                                                  *)
(***************************************************************************)
VARIABLES
    \* the directory at the final path <dataRoot>/golang/<fingerprint>:
    \* [exists, files], files[f] = the caller whose Extract wrote f, 0 = no file
    target,
    \* the directory at <final path>.download
    tmp,
    \* per caller of getRuntime: [pc, version, err, path, next]
    rt,
    \* per caller, about its current (or last) invocation: what it did and met
    hist,
    \* download.Extract calls so far, by all callers
    totalExtract,
    \* whether some Rename moved a staging directory to the final path
    committed,
    \* the last invocation that returned: [ok, version, path]
    lastRet,
    \* getRuntime invocations so far
    calls

VARIABLES
    \* the types.Tool handed to Binary or getLatestRelease: [Repo]
    tool,
    \* the env handed to Binary
    env,
    \* where the prebuilt-binary path stands, and which function was called
    bpc, entry,
    \* the locals of getLatestRelease: [account, repo, decoded, tags]
    glr,
    \* what getLatestRelease returned: [ok, account, repo, label]
    rel,
    \* what getChecksum returned
    checksum,
    \* the locals of downloadBin: [status, payload, compared, got, returned, err]
    dl,
    \* the HTTP requests issued so far, in order
    reqs,
    \* <toolSource>/bin and the binary in it: [binDir, file]
    disk,
    \* what Binary returned: [returned, found, env, envNil, err]
    result,
    \* Setup or BuildCredentialHelper: [pc, helper, newEnv, cmdEnv, builds, ret],
    \* ret = what it returned
    setup

binVars == <<tool, env, bpc, entry, glr, rel, checksum, dl, reqs, disk, result, setup>>

rtVars == <<target, tmp, rt, hist, totalExtract, committed, lastRet, calls>>

VARIABLE
    \* a function of the package called on its own: [op, in, out]
    fn

vars == <<rtVars, binVars, fn>>

NoFiles == [f \in Files |-> 0]
NoDir == [exists |-> FALSE, files |-> NoFiles]
NoPath == <<>>

Complete(dir) == dir.exists /\ \A f \in Files : dir.files[f] # 0

FreshHist ==
    [fault |-> "none", nMkdir |-> 0, nExtract |-> 0, nRename |-> 0,
     startFinal |-> FALSE, alone |-> TRUE, afterOK |-> FALSE, prevPath |-> NoPath,
     statErr |-> "none"]

RtInit ==
    /\ target = NoDir
    /\ tmp = NoDir
    /\ rt = [p \in Procs |-> [pc |-> "idle", version |-> <<>>, err |-> "nil", path |-> NoPath, next |-> 0]]
    /\ hist = [p \in Procs |-> FreshHist]
    /\ totalExtract = 0
    /\ committed = FALSE
    /\ lastRet = [ok |-> FALSE, version |-> <<>>, path |-> NoPath]
    /\ calls = 0

\* Stat, probing the staging path instead of the final path
StatStaging(dir) == tmp.exists

\* os.Stat(target) returns no error
Stat(dir) == dir.exists

\* download.Extract: it ends well, or the fetch fails, or the digest of the
\* archive is not the expected one
ExtractOutcomes == {"ok", "transport", "integrity"}

\* download.Extract writes file f of the archive under dir, for caller p; a
\* directory that is gone is made again
WriteFile(dir, f, p) ==
    [exists |-> TRUE,
     files |-> [(IF dir.exists THEN dir.files ELSE NoFiles) EXCEPT ![f] = p]]

\* a caller is between invocations
Returned(p) == rt[p].pc \in {"idle", "done"}

\* the invocation of p ends with (err, path): the return statements of getRuntime
Return(p, err, path) ==
    /\ rt' = [rt EXCEPT ![p].pc = "done", ![p].err = err, ![p].path = path]
    /\ lastRet' = [ok |-> err = "nil", version |-> rt[p].version, path |-> path]

(***************************************************************************)
(* getRuntime, one action per file-system call.                            *)
(***************************************************************************)
\* lines 342-352: getReleaseAndDigest and os.Stat(target)
GetRuntimeStart(p) ==
    /\ Returned(p)
    /\ calls < MaxCalls
    /\ calls' = calls + 1
    /\ \E v \in Versions :
        LET rd    == Resolved[v]
            quiet  == \A q \in Procs \ {p} : Returned(q)
            h      == [FreshHist EXCEPT
                          !.startFinal = target.exists,
                          !.alone = quiet,
                          !.afterOK = quiet /\ lastRet.ok /\ lastRet.version = v,
                          !.prevPath = lastRet.path]
            err    == IF ~rd.ok THEN "noRelease" ELSE "nil"
            path   == IF rd.ok /\ Stat(target)
                      THEN binDir(targetPath(dataRoot, rd.url, rd.digest)) ELSE NoPath
        IN  /\ hist' = [q \in Procs |-> IF q = p THEN h ELSE [hist[q] EXCEPT !.alone = FALSE]]
            /\ IF ~rd.ok \/ Stat(target)
               THEN /\ rt' = [rt EXCEPT ![p] = [pc |-> "done", version |-> v, err |-> err,
                                                path |-> path, next |-> 0]]
                    /\ lastRet' = [ok |-> rd.ok, version |-> v, path |-> path]
               ELSE /\ rt' = [rt EXCEPT ![p] = [pc |-> "mkdir", version |-> v, err |-> "nil",
                                                path |-> NoPath, next |-> 0]]
                    /\ UNCHANGED lastRet
    /\ UNCHANGED <<target, tmp, totalExtract, committed>>
    /\ UNCHANGED binVars
    /\ UNCHANGED fn

\* the errors of os.Stat(target) other than fs.ErrNotExist
StatErrors == {"EACCES", "ENOTDIR"}

\* IsNotExist, taking every error of the probe for "does not exist"
IsNotExistAlways(e) == TRUE

\* line 350: errors.Is(err, fs.ErrNotExist)
IsNotExist(e) == e = "ENOENT"

\* lines 342-352, when os.Stat(target) returns the error e
GetRuntimeStatFails(p) ==
    /\ Returned(p)
    /\ calls < MaxCalls
    /\ calls' = calls + 1
    /\ \E v \in Versions, e \in StatErrors \cup (IF target.exists THEN {} ELSE {"ENOENT"}) :
        LET quiet == \A q \in Procs \ {p} : Returned(q)
            h     == [FreshHist EXCEPT
                         !.startFinal = target.exists,
                         !.alone = quiet,
                         !.afterOK = quiet /\ lastRet.ok /\ lastRet.version = v,
                         !.prevPath = lastRet.path,
                         !.statErr = IF e = "ENOENT" THEN "none" ELSE e]
        IN  /\ Resolved[v].ok
            /\ hist' = [q \in Procs |-> IF q = p THEN h ELSE [hist[q] EXCEPT !.alone = FALSE]]
            /\ IF IsNotExist(e)
               THEN /\ rt' = [rt EXCEPT ![p] = [pc |-> "mkdir", version |-> v, err |-> "nil",
                                                path |-> NoPath, next |-> 0]]
                    /\ UNCHANGED lastRet
               ELSE /\ rt' = [rt EXCEPT ![p] = [pc |-> "done", version |-> v, err |-> e,
                                                path |-> NoPath, next |-> 0]]
                    /\ lastRet' = [ok |-> FALSE, version |-> v, path |-> NoPath]
    /\ UNCHANGED <<target, tmp, totalExtract, committed>>
    /\ UNCHANGED binVars
    /\ UNCHANGED fn

\* lines 358-360: os.MkdirAll(tmp), after the deferred RemoveAll was registered
MkdirAll(p) ==
    /\ rt[p].pc = "mkdir"
    /\ \E ok \in BOOLEAN :
        IF ok
        THEN /\ tmp' = [tmp EXCEPT !.exists = TRUE]
             /\ rt' = [rt EXCEPT ![p].pc = "extract"]
             /\ hist' = [hist EXCEPT ![p].nMkdir = @ + 1]
        ELSE /\ rt' = [rt EXCEPT ![p].pc = "cleanup", ![p].err = "mkdir"]
             /\ hist' = [hist EXCEPT ![p].fault = "mkdir"]
             /\ UNCHANGED tmp
    /\ UNCHANGED <<target, totalExtract, committed, lastRet, calls>>
    /\ UNCHANGED binVars
    /\ UNCHANGED fn

\* ExtractStart, calling download.Extract again when it failed
ExtractStartRetries(p) ==
    /\ rt[p].pc = "extract"
    /\ totalExtract' = totalExtract + 1
    /\ \E outcome \in ExtractOutcomes :
        /\ rt' = [rt EXCEPT ![p].pc = IF outcome = "ok" THEN "write" ELSE "extract",
                            ![p].next = 1]
        /\ hist' = [hist EXCEPT ![p].nExtract = @ + 1]
    /\ UNCHANGED <<target, tmp, committed, lastRet, calls>>
    /\ UNCHANGED binVars
    /\ UNCHANGED fn

\* line 362, download.Extract: fetch the archive and verify its digest
ExtractStart(p) ==
    /\ rt[p].pc = "extract"
    /\ totalExtract' = totalExtract + 1
    /\ \E outcome \in ExtractOutcomes :
        IF outcome = "ok"
        THEN /\ rt' = [rt EXCEPT ![p].pc = "write", ![p].next = 1]
             /\ hist' = [hist EXCEPT ![p].nExtract = @ + 1]
        ELSE /\ rt' = [rt EXCEPT ![p].pc = "cleanup", ![p].err = outcome]
             /\ hist' = [hist EXCEPT ![p].nExtract = @ + 1, ![p].fault = outcome]
    /\ UNCHANGED <<target, tmp, committed, lastRet, calls>>
    /\ UNCHANGED binVars
    /\ UNCHANGED fn

\* line 362, download.Extract: write the next file of the archive under tmp, by
\* path. Writing under a directory that is gone either fails or creates it again.
ExtractWrite(p) ==
    /\ rt[p].pc = "write"
    /\ \E ok \in BOOLEAN :
        IF ok
        THEN /\ tmp' = WriteFile(tmp, rt[p].next, p)
             /\ rt' = [rt EXCEPT ![p].next = @ + 1,
                                 ![p].pc = IF rt[p].next = NFiles THEN "rename" ELSE "write"]
             /\ UNCHANGED hist
        ELSE /\ rt' = [rt EXCEPT ![p].pc = "cleanup", ![p].err = "extract"]
             /\ hist' = [hist EXCEPT ![p].fault = "extract"]
             /\ UNCHANGED tmp
    /\ UNCHANGED <<target, totalExtract, committed, lastRet, calls>>
    /\ UNCHANGED binVars
    /\ UNCHANGED fn

\* lines 366-368: os.Rename(tmp, target); it fails when tmp is gone or a
\* directory with files is already at target
Rename(p) ==
    /\ rt[p].pc = "rename"
    /\ \E ok \in BOOLEAN :
        IF ok /\ tmp.exists /\ ~target.exists
        THEN /\ target' = tmp
             /\ tmp' = NoDir
             /\ committed' = TRUE
             /\ rt' = [rt EXCEPT ![p].pc = "cleanup", ![p].err = "nil",
                         ![p].path = LET rd == Resolved[rt[p].version]
                                     IN  binDir(targetPath(dataRoot, rd.url, rd.digest))]
             /\ hist' = [hist EXCEPT ![p].nRename = @ + 1]
        ELSE /\ rt' = [rt EXCEPT ![p].pc = "cleanup", ![p].err = "rename"]
             /\ hist' = [hist EXCEPT ![p].nRename = @ + 1, ![p].fault = "rename"]
             /\ UNCHANGED <<target, tmp, committed>>
    /\ UNCHANGED <<totalExtract, lastRet, calls>>
    /\ UNCHANGED binVars
    /\ UNCHANGED fn

\* Cleanup, without the deferred os.RemoveAll(tmp)
CleanupKeepsStaging(p) ==
    /\ rt[p].pc = "cleanup"
    /\ Return(p, rt[p].err, rt[p].path)
    /\ UNCHANGED <<target, tmp, hist, totalExtract, committed, calls>>
    /\ UNCHANGED binVars
    /\ UNCHANGED fn

\* line 356: the deferred os.RemoveAll(tmp), then the return
Cleanup(p) ==
    /\ rt[p].pc = "cleanup"
    /\ tmp' = NoDir
    /\ Return(p, rt[p].err, rt[p].path)
    /\ UNCHANGED <<target, hist, totalExtract, committed, calls>>
    /\ UNCHANGED binVars
    /\ UNCHANGED fn

\* a file a killed invocation left behind
Crashed == 0 - 1

\* the process of p is killed while download.Extract writes: the deferred
\* os.RemoveAll(tmp) of line 356 never runs, and what it wrote stays
Kill(p) ==
    /\ rt[p].pc = "write"
    /\ rt' = [rt EXCEPT ![p].pc = "idle", ![p].err = "killed"]
    /\ hist' = [hist EXCEPT ![p].fault = "killed"]
    /\ tmp' = [tmp EXCEPT !.files = [f \in Files |-> IF @[f] = p THEN Crashed ELSE @[f]]]
    /\ UNCHANGED <<target, totalExtract, committed, lastRet, calls>>
    /\ UNCHANGED binVars
    /\ UNCHANGED fn

getRuntime(p) ==
    \/ GetRuntimeStart(p)
    \/ MkdirAll(p)
    \/ ExtractStart(p)
    \/ ExtractWrite(p)
    \/ Rename(p)
    \/ Cleanup(p)


(***************************************************************************)
(* The prebuilt-binary path: inputs.                                       *)
(***************************************************************************)
\* tags in one answer of the tag-list API
MaxTags == 2

https == <<"h", "t", "t", "p", "s", ":", "/", "/">>
githubRoot == <<"h", "t", "t", "p", "s", ":", "/", "/", "g", "i", "t", "h", "u", "b", ".", "c", "o", "m", "/">>
dotGit == <<".", "g", "i", "t">>
slash == <<"/">>

Schemes == {https, <<"h", "t", "t", "p", ":", "/", "/">>}
Hosts == {<<"g", "i", "t", "h", "u", "b", ".", "c", "o", "m">>, <<"g", "i", "t", "l", "a", "b", ".", "c", "o", "m">>}
RepoPaths == {<<"a">>, <<"a", "/", "r">>, <<"a", "/", "r", "/", "x">>, <<"a", "/">>}
RootSuffixes == {<<>>, dotGit}
Roots == {s \o h \o slash \o path \o x :
             s \in Schemes, h \in Hosts, path \in RepoPaths, x \in RootSuffixes}

Revisions == {"c1", "c2"}
NilRepo == [nil |-> TRUE, VCS |-> "", Root |-> <<>>, Revision |-> ""]
Repos == {NilRepo} \cup
         {[nil |-> FALSE, VCS |-> v, Root |-> r, Revision |-> c] :
             v \in {"git", "hg"}, r \in Roots, c \in Revisions}
Tools == {[Repo |-> r] : r \in Repos}

\* types.ToolSource.IsGit
IsGit(t) == ~t.Repo.nil /\ t.Repo.VCS = "git"

TagNames == {<<>>, <<"v", "1">>, <<"v", "2">>}
Tags == {[Name |-> n, Sha |-> c] : n \in TagNames, c \in Revisions}
RECURSIVE SeqsUpTo(_, _)
SeqsUpTo(S, n) ==
    IF n = 0 THEN {<<>>}
    ELSE LET shorter == SeqsUpTo(S, n - 1)
         IN  shorter \cup {Append(q, x) : q \in shorter, x \in S}
TagLists == SeqsUpTo(Tags, MaxTags)

\* the answers to GET api.github.com/repos/<account>/<repo>/tags
TagsResponses ==
    {[err |-> TRUE, StatusCode |-> 0, decodes |-> FALSE, tags |-> <<>>],
     [err |-> FALSE, StatusCode |-> 404, decodes |-> FALSE, tags |-> <<>>],
     [err |-> FALSE, StatusCode |-> 200, decodes |-> FALSE, tags |-> <<>>]}
    \cup {[err |-> FALSE, StatusCode |-> 200, decodes |-> TRUE, tags |-> l] : l \in TagLists}

\* the answers to GET github.com/<account>/<repo>/releases/latest, not following
\* redirects
Locations == {<<>>, <<"h", "t", "t", "p", "s", ":", "/", "/", "g", "i", "t", "h", "u", "b", ".", "c", "o", "m", "/", "a", "/", "r", "/", "r", "e", "l", "e", "a", "s", "e", "s", "/", "t", "a", "g", "/", "v", "9">>,
              <<"h", "t", "t", "p", "s", ":", "/", "/", "g", "i", "t", "h", "u", "b", ".", "c", "o", "m", "/", "a", "/", "r", "/", "r", "e", "l", "e", "a", "s", "e", "s", "/">>}
LatestResponses ==
    {[err |-> TRUE, StatusCode |-> 0, Location |-> <<>>],
     [err |-> FALSE, StatusCode |-> 200, Location |-> <<>>],
     [err |-> FALSE, StatusCode |-> 404, Location |-> <<>>]}
    \cup {[err |-> FALSE, StatusCode |-> 302, Location |-> l] : l \in Locations}

\* bodies of checksums.txt
Manifests ==
    {<<"a", "a", " ", " ", "r", "-", "l", "i", "n", "u", "x", "-", "a", "m", "d", "6", "4", "\n", "b", "b", " ", " ", "r", "-", "d", "a", "r", "w", "i", "n", "-", "a", "r", "m", "6", "4", "\n">>,
     <<"b", "b", " ", " ", "r", "-", "d", "a", "r", "w", "i", "n", "-", "a", "r", "m", "6", "4", "\n">>,
     <<"A", "A", " ", " ", "r", "-", "l", "i", "n", "u", "x", "-", "a", "m", "d", "6", "4", "\n">>,
     <<"a", "a", " ", " ", "r", "-", "l", "i", "n", "u", "x", "-", "a", "m", "d", "6", "4", " ", " ", "x", "\n", "b", "b", "\t", "r", "-", "l", "i", "n", "u", "x", "-", "a", "m", "d", "6", "4", "\n">>}

\* the answers get() sees: a transport error, a status, a body
ManifestResponses ==
    {[err |-> TRUE, StatusCode |-> 0, body |-> <<>>],
     [err |-> FALSE, StatusCode |-> 404, body |-> <<>>]}
    \cup {[err |-> FALSE, StatusCode |-> 200, body |-> m] : m \in Manifests}

Payloads == {"p1", "p2"}
BinResponses ==
    {[err |-> TRUE, StatusCode |-> 0, body |-> "none"],
     [err |-> FALSE, StatusCode |-> 404, body |-> "none"],
     [err |-> FALSE, StatusCode |-> 500, body |-> "none"]}
    \cup {[err |-> FALSE, StatusCode |-> 200, body |-> b] : b \in Payloads}

\* the env handed to Binary and Setup
Envs == {<<>>, <<<<"A", "=", "1">>>>, <<<<"G", "O", "X", "=", "1">>, <<"P", "A", "T", "H", "=", "/", "b">>>>,
         <<<<"A", "=", "1">>, <<"G", "O", "X", "=", "1">>, <<"A", "=", "1">>, <<"B", "=", "2">>>>}

\* sha256.Sum over a body, cut to one byte
sha256(body) == IF body = "p1" THEN <<170>> ELSE <<187>>

hextable == <<"0", "1", "2", "3", "4", "5", "6", "7", "8", "9", "a", "b", "c", "d", "e", "f">>

\* hex.EncodeToString
RECURSIVE EncodeToString(_)
EncodeToString(bytes) ==
    IF bytes = <<>> THEN <<>>
    ELSE <<hextable[(Head(bytes) \div 16) + 1], hextable[(Head(bytes) % 16) + 1]>>
         \o EncodeToString(Tail(bytes))

\* strings.Fields: the maximal runs of non-space characters
RECURSIVE Fields(_)
Fields(s) ==
    LET t == TrimLeft(s)
        stops == {i \in 1..Len(t) : IsSpace(t[i])}
        stop == IF stops = {} THEN Len(t) + 1
                ELSE CHOOSE i \in stops : \A j \in stops : i <= j
    IN  IF t = <<>> THEN <<>>
        ELSE <<SubSeq(t, 1, stop - 1)>> \o Fields(SubSeq(t, stop, Len(t)))

(***************************************************************************)
(* release and its URLs.                                                   *)
(***************************************************************************)
NoRelease == [ok |-> FALSE, account |-> <<>>, repo |-> <<>>, label |-> <<>>]
Release(account, repo, label) ==
    [ok |-> TRUE, account |-> account, repo |-> repo, label |-> label]

windowsSuffix == IF GOOS = <<"w", "i", "n", "d", "o", "w", "s">> THEN <<".", "e", "x", "e">> ELSE <<>>

srcBinName(r) == r.repo \o <<"-">> \o GOOS \o <<"-">> \o GOARCH \o windowsSuffix

targetBinName(r) == <<"g", "p", "t", "s", "c", "r", "i", "p", "t", "-", "g", "o", "-", "t", "o", "o", "l">> \o windowsSuffix

\* the URLs requested, as [kind, account, repo, label, file]:
\* https://api.github.com/repos/<account>/<repo>/tags
tagsURL(account, repo) ==
    [kind |-> "tags", account |-> account, repo |-> repo, label |-> <<>>, file |-> <<>>]
\* https://github.com/<account>/<repo>/releases/latest
latestURL(account, repo) ==
    [kind |-> "latest", account |-> account, repo |-> repo, label |-> <<>>, file |-> <<>>]
\* https://github.com/<account>/<repo>/releases/download/<label>/checksums.txt
checksumTxt(r) ==
    [kind |-> "checksums", account |-> r.account, repo |-> r.repo, label |-> r.label,
     file |-> <<>>]
\* https://github.com/<account>/<repo>/releases/download/<label>/<srcBinName>
binURL(r) ==
    [kind |-> "download", account |-> r.account, repo |-> r.repo, label |-> r.label,
     file |-> srcBinName(r)]

(***************************************************************************)
(* The prebuilt-binary path: state.                                        *)
(***************************************************************************)
NoLocals == [account |-> <<>>, repo |-> <<>>, decoded |-> FALSE, tags |-> <<>>]
NoDownload == [status |-> 0, payload |-> "none", compared |-> FALSE, got |-> <<>>,
               returned |-> FALSE, err |-> "nil"]
NoFile == [exists |-> FALSE, bytes |-> "none", whole |-> FALSE, mode |-> "none"]
NoResult == [returned |-> FALSE, found |-> FALSE, env |-> <<>>, envNil |-> TRUE, err |-> "nil"]

NoReturn == [returned |-> FALSE, envNil |-> TRUE, env |-> <<>>, err |-> "nil"]
NoSetup == [pc |-> "idle", helper |-> "", newEnv |-> <<>>, cmdEnv |-> <<>>, builds |-> 0,
            ret |-> NoReturn]

BinInit ==
    /\ tool = [Repo |-> NilRepo]
    /\ env = <<>>
    /\ bpc = "idle"
    /\ entry = "none"
    /\ glr = NoLocals
    /\ rel = NoRelease
    /\ checksum = <<>>
    /\ dl = NoDownload
    /\ reqs = <<>>
    /\ disk = [binDir |-> FALSE, file |-> NoFile]
    /\ result = NoResult
    /\ setup = NoSetup

(***************************************************************************)
(* getLatestRelease.                                                       *)
(***************************************************************************)
\* ParseRoot, taking any root of three segments or more
ParseRootAtLeastThree(t) ==
    IF t.Repo.nil \/ ~HasPrefix(t.Repo.Root, githubRoot)
    THEN [ok |-> FALSE, account |-> <<>>, repo |-> <<>>]
    ELSE LET parts == Split(TrimPrefix(TrimSuffix(t.Repo.Root, dotGit), https), slash)
         IN  IF Len(parts) < 3 THEN [ok |-> FALSE, account |-> <<>>, repo |-> <<>>]
             ELSE [ok |-> TRUE, account |-> parts[2], repo |-> parts[3]]

\* lines 101-116: [ok, account, repo] from tool.Source.Repo.Root
ParseRoot(t) ==
    IF t.Repo.nil \/ ~HasPrefix(t.Repo.Root, githubRoot)
    THEN [ok |-> FALSE, account |-> <<>>, repo |-> <<>>]
    ELSE LET parts == Split(TrimPrefix(TrimSuffix(t.Repo.Root, dotGit), https), slash)
         IN  IF Len(parts) # 3 THEN [ok |-> FALSE, account |-> <<>>, repo |-> <<>>]
             ELSE [ok |-> TRUE, account |-> parts[2], repo |-> parts[3]]

\* StatusOK, taking every status below 500
StatusNotServerError(code) == code < 500

\* resp.StatusCode != http.StatusOK, lines 119 and 170
StatusOK(code) == code = 200

\* line 140: resp.StatusCode != http.StatusFound
StatusFound(code) == code = 302

\* line 130
TagMatches(t, revision) == t.Sha = revision

\* FirstMatch, keeping the last tag of the revision
LastMatch(tags, revision) ==
    LET hits == {i \in 1..Len(tags) : TagMatches(tags[i], revision)}
    IN  IF hits = {} THEN 0 ELSE CHOOSE i \in hits : \A j \in hits : i >= j

\* lines 129-137: the index of the first tag of the revision, 0 when none
FirstMatch(tags, revision) ==
    LET hits == {i \in 1..Len(tags) : TagMatches(tags[i], revision)}
    IN  IF hits = {} THEN 0 ELSE CHOOSE i \in hits : \A j \in hits : i <= j

\* lines 151-152: the last segment of the redirect target
LabelOf(location) ==
    LET parts == Split(location, slash) IN parts[Len(parts)]

\* Binary, line 235-238, up to the call of getLatestRelease
BinaryCall ==
    /\ bpc = "idle"
    /\ \E t \in Tools, e \in Envs :
        /\ tool' = t
        /\ env' = e
        /\ entry' = "Binary"
        /\ IF ~IsGit(t)
           THEN /\ result' = [NoResult EXCEPT !.returned = TRUE]
                /\ bpc' = "done"
           ELSE /\ bpc' = "getLatestRelease"
                /\ UNCHANGED result
    /\ UNCHANGED <<glr, rel, checksum, dl, reqs, disk, setup>>
    /\ UNCHANGED rtVars
    /\ UNCHANGED fn

\* getLatestRelease called on its own, with any tool
GetLatestReleaseCall ==
    /\ bpc = "idle"
    /\ \E t \in Tools :
        /\ tool' = t
        /\ entry' = "getLatestRelease"
        /\ bpc' = "getLatestRelease"
    /\ UNCHANGED <<env, glr, rel, checksum, dl, reqs, disk, result, setup>>
    /\ UNCHANGED rtVars
    /\ UNCHANGED fn

\* lines 101-116
GetLatestReleaseStart ==
    /\ bpc = "getLatestRelease"
    /\ LET parsed == ParseRoot(tool)
       IN  IF ~parsed.ok
           THEN /\ rel' = NoRelease
                /\ bpc' = "released"
                /\ UNCHANGED glr
           ELSE /\ glr' = [NoLocals EXCEPT !.account = parsed.account, !.repo = parsed.repo]
                /\ bpc' = "tags"
                /\ UNCHANGED rel
    /\ UNCHANGED <<tool, env, entry, checksum, dl, reqs, disk, result, setup>>
    /\ UNCHANGED rtVars
    /\ UNCHANGED fn

\* TagsRequest, asking for the latest release when the tag list failed
TagsRequestFallsThrough ==
    /\ bpc = "tags"
    /\ reqs' = Append(reqs, tagsURL(glr.account, glr.repo))
    /\ \E resp \in TagsResponses :
        IF resp.err \/ ~StatusOK(resp.StatusCode) \/ ~resp.decodes
        THEN /\ bpc' = "latest"
             /\ UNCHANGED <<glr, rel>>
        ELSE LET i == FirstMatch(resp.tags, tool.Repo.Revision)
             IN  /\ glr' = [glr EXCEPT !.decoded = TRUE, !.tags = resp.tags]
                 /\ IF i # 0
                    THEN /\ rel' = Release(glr.account, glr.repo, resp.tags[i].Name)
                         /\ bpc' = "released"
                    ELSE /\ bpc' = "latest"
                         /\ UNCHANGED rel
    /\ UNCHANGED <<tool, env, entry, checksum, dl, disk, result, setup>>
    /\ UNCHANGED rtVars
    /\ UNCHANGED fn

\* lines 118-137: the tag list request and the scan of its answer
TagsRequest ==
    /\ bpc = "tags"
    /\ reqs' = Append(reqs, tagsURL(glr.account, glr.repo))
    /\ \E resp \in TagsResponses :
        IF resp.err \/ ~StatusOK(resp.StatusCode) \/ ~resp.decodes
        THEN /\ rel' = NoRelease
             /\ bpc' = "released"
             /\ UNCHANGED glr
        ELSE LET i == FirstMatch(resp.tags, tool.Repo.Revision)
             IN  /\ glr' = [glr EXCEPT !.decoded = TRUE, !.tags = resp.tags]
                 /\ IF i # 0
                    THEN /\ rel' = Release(glr.account, glr.repo, resp.tags[i].Name)
                         /\ bpc' = "released"
                    ELSE /\ bpc' = "latest"
                         /\ UNCHANGED rel
    /\ UNCHANGED <<tool, env, entry, checksum, dl, disk, result, setup>>
    /\ UNCHANGED rtVars
    /\ UNCHANGED fn

\* lines 139-158: the latest-release request and its Location header
LatestRequest ==
    /\ bpc = "latest"
    /\ reqs' = Append(reqs, latestURL(glr.account, glr.repo))
    /\ \E resp \in LatestResponses :
        IF resp.err \/ ~StatusFound(resp.StatusCode) \/ resp.Location = <<>>
        THEN rel' = NoRelease
        ELSE rel' = Release(glr.account, glr.repo, LabelOf(resp.Location))
    /\ bpc' = "released"
    /\ UNCHANGED <<tool, env, entry, glr, checksum, dl, disk, result, setup>>
    /\ UNCHANGED rtVars
    /\ UNCHANGED fn

(***************************************************************************)
(* getChecksum.                                                            *)
(***************************************************************************)
\* ScanChecksum, not counting the fields of a line
ScanChecksumAnyFields(body, name) ==
    LET lines == ScanLines(body)
        hits  == {i \in 1..Len(lines) :
                     LET fields == Fields(lines[i])
                     IN  Len(fields) >= 2 /\ fields[2] = name}
    IN  IF hits = {} THEN <<>>
        ELSE Fields(lines[CHOOSE i \in hits : \A j \in hits : i <= j])[1]

\* lines 223-232: the first field of the first line with two fields, the second
\* being name
ScanChecksum(body, name) ==
    LET lines == ScanLines(body)
        hits  == {i \in 1..Len(lines) :
                     LET fields == Fields(lines[i])
                     IN  Len(fields) = 2 /\ fields[2] = name}
    IN  IF hits = {} THEN <<>>
        ELSE Fields(lines[CHOOSE i \in hits : \A j \in hits : i <= j])[1]

\* lines 215-233, on the answer resp to the request for checksums.txt
getChecksum(resp, r) ==
    IF resp.err \/ ~StatusOK(resp.StatusCode) THEN <<>>
    ELSE ScanChecksum(resp.body, srcBinName(r))

\* ChecksumMissing, never true
ChecksumNeverMissing(c) == FALSE

\* line 246
ChecksumMissing(c) == c = <<>>

(***************************************************************************)
(* Binary and downloadBin.                                                 *)
(***************************************************************************)
\* DownloadFailed, letting a checksum mismatch pass
DownloadFailedButMismatch(err) == err \notin {"nil", "checksum mismatch"}

\* line 250: err != nil
DownloadFailed(err) == err # "nil"

\* lines 237, 242, 247, 252: return false, nil, nil
NotFound == [NoResult EXCEPT !.returned = TRUE]

\* line 255: return true, env, nil
Found(e) == [returned |-> TRUE, found |-> TRUE, env |-> e, envNil |-> FALSE, err |-> "nil"]

\* downloadBin returns err with locals d, and Binary returns on it: lines 250-255
DownloadReturns(d, err) ==
    /\ dl' = [d EXCEPT !.returned = TRUE, !.err = err]
    /\ result' = IF DownloadFailed(err) THEN NotFound ELSE Found(env)
    /\ bpc' = "done"

\* lines 240-243: Binary after getLatestRelease returned
AfterRelease ==
    /\ bpc = "released"
    /\ entry = "Binary"
    /\ glr' = NoLocals
    /\ IF ~rel.ok
       THEN /\ result' = NotFound
            /\ bpc' = "done"
       ELSE /\ bpc' = "getChecksum"
            /\ UNCHANGED result
    /\ UNCHANGED <<tool, env, entry, rel, checksum, dl, reqs, disk, setup>>
    /\ UNCHANGED rtVars
    /\ UNCHANGED fn

\* lines 245-248, with getChecksum's request
GetChecksum ==
    /\ bpc = "getChecksum"
    /\ reqs' = Append(reqs, checksumTxt(rel))
    /\ \E resp \in ManifestResponses :
        LET c == getChecksum(resp, rel)
        IN  /\ checksum' = c
            /\ IF ChecksumMissing(c)
               THEN /\ result' = NotFound
                    /\ bpc' = "done"
               ELSE /\ bpc' = "get"
                    /\ UNCHANGED result
    /\ UNCHANGED <<tool, env, entry, glr, rel, dl, disk, setup>>
    /\ UNCHANGED rtVars
    /\ UNCHANGED fn

\* lines 179-183 and get, lines 161-176
DownloadGet ==
    /\ bpc = "get"
    /\ reqs' = Append(reqs, binURL(rel))
    /\ \E resp \in BinResponses :
        LET d == [dl EXCEPT !.status = resp.StatusCode, !.payload = resp.body]
        IN  IF resp.err THEN DownloadReturns(d, "transport")
            ELSE IF ~StatusOK(resp.StatusCode) THEN DownloadReturns(d, "bad HTTP status code")
            ELSE /\ dl' = d
                 /\ bpc' = "mkdir"
                 /\ UNCHANGED result
    /\ UNCHANGED <<tool, env, entry, glr, rel, checksum, disk, setup>>
    /\ UNCHANGED rtVars
    /\ UNCHANGED fn

\* lines 185-187: os.MkdirAll(<src>/bin)
DownloadMkdir ==
    /\ bpc = "mkdir"
    /\ \E ok \in BOOLEAN :
        IF ok
        THEN /\ disk' = [disk EXCEPT !.binDir = TRUE]
             /\ bpc' = "create"
             /\ UNCHANGED <<dl, result>>
        ELSE /\ DownloadReturns(dl, "mkdir")
             /\ UNCHANGED disk
    /\ UNCHANGED <<tool, env, entry, glr, rel, checksum, reqs, setup>>
    /\ UNCHANGED rtVars
    /\ UNCHANGED fn

\* lines 189-192: os.Create(<src>/bin/<bin>)
DownloadCreate ==
    /\ bpc = "create"
    /\ \E ok \in BOOLEAN :
        IF ok
        THEN /\ disk' = [disk EXCEPT !.file = [exists |-> TRUE, bytes |-> "none",
                                               whole |-> FALSE, mode |-> "0666"]]
             /\ bpc' = "copy"
             /\ UNCHANGED <<dl, result>>
        ELSE /\ DownloadReturns(dl, "create")
             /\ UNCHANGED disk
    /\ UNCHANGED <<tool, env, entry, glr, rel, checksum, reqs, setup>>
    /\ UNCHANGED rtVars
    /\ UNCHANGED fn

\* lines 194-198: io.Copy into the file and the digest
DownloadCopy ==
    /\ bpc = "copy"
    /\ \E ok \in BOOLEAN :
        IF ok
        THEN /\ disk' = [disk EXCEPT !.file.bytes = dl.payload, !.file.whole = TRUE]
             /\ bpc' = "close"
             /\ UNCHANGED <<dl, result>>
        ELSE /\ disk' = [disk EXCEPT !.file.bytes = dl.payload]
             /\ DownloadReturns(dl, "copy")
    /\ UNCHANGED <<tool, env, entry, glr, rel, checksum, reqs, setup>>
    /\ UNCHANGED rtVars
    /\ UNCHANGED fn

\* lines 200-202: targetFile.Close(); on an error, return nil
DownloadClose ==
    /\ bpc = "close"
    /\ \E ok \in BOOLEAN :
        IF ok
        THEN /\ bpc' = "compare"
             /\ UNCHANGED <<dl, result>>
        ELSE DownloadReturns(dl, "nil")
    /\ UNCHANGED <<tool, env, entry, glr, rel, checksum, reqs, disk, setup>>
    /\ UNCHANGED rtVars
    /\ UNCHANGED fn

\* lines 204-206: the digest of the bytes copied against checksum
DownloadCompare ==
    /\ bpc = "compare"
    /\ LET got == EncodeToString(sha256(dl.payload))
           d   == [dl EXCEPT !.compared = TRUE, !.got = got]
       IN  IF got # checksum
           THEN DownloadReturns(d, "checksum mismatch")
           ELSE /\ dl' = d
                /\ bpc' = "chmod"
                /\ UNCHANGED result
    /\ UNCHANGED <<tool, env, entry, glr, rel, checksum, reqs, disk, setup>>
    /\ UNCHANGED rtVars
    /\ UNCHANGED fn

\* lines 208-212: os.Chmod(file, 0755)
DownloadChmod ==
    /\ bpc = "chmod"
    /\ \E ok \in BOOLEAN :
        IF ok
        THEN /\ disk' = [disk EXCEPT !.file.mode = "0755"]
             /\ DownloadReturns(dl, "nil")
        ELSE /\ DownloadReturns(dl, "chmod")
             /\ UNCHANGED disk
    /\ UNCHANGED <<tool, env, entry, glr, rel, checksum, reqs, setup>>
    /\ UNCHANGED rtVars
    /\ UNCHANGED fn

getLatestRelease ==
    \/ GetLatestReleaseStart
    \/ TagsRequest
    \/ LatestRequest

downloadBin ==
    \/ DownloadGet
    \/ DownloadMkdir
    \/ DownloadCreate
    \/ DownloadCopy
    \/ DownloadClose
    \/ DownloadCompare
    \/ DownloadChmod

Binary ==
    \/ BinaryCall
    \/ AfterRelease
    \/ GetChecksum
    \/ downloadBin


(***************************************************************************)
(* Setup and runBuild, for the caller 1 of getRuntime.                     *)
(***************************************************************************)
pathKey == <<"P", "A", "T", "H", "=">>

\* env.AppendPath: dir put in front of the search path of env; dir, written
\* out, is one element of the entry
AppendPath(e, dir) ==
    IF \E i \in DOMAIN e : HasPrefix(e[i], pathKey)
    THEN [i \in DOMAIN e |->
             IF HasPrefix(e[i], pathKey)
             THEN pathKey \o <<ToString(dir), ":">> \o TrimPrefix(e[i], pathKey)
             ELSE e[i]]
    ELSE Append(e, pathKey \o <<ToString(dir)>>)

\* stripGo, dropping the GOPATH entries only
stripGOPATH(e) ==
    SelectSeq(e, LAMBDA x : ~HasPrefix(x, <<"G", "O", "P", "A", "T", "H">>))

\* lines 312-320
RECURSIVE stripGo(_)
stripGo(e) ==
    IF e = <<>> THEN <<>>
    ELSE IF HasPrefix(Head(e), <<"G", "O">>) THEN stripGo(Tail(e))
    ELSE <<Head(e)>> \o stripGo(Tail(e))

\* line 258: Setup is called, first of all or after Binary found no binary;
\* the locals of Binary are gone by then
SetupCall ==
    /\ setup.pc = "idle"
    /\ \/ /\ bpc = "idle"
          /\ \E e \in Envs : env' = e
       \/ /\ bpc = "done" /\ entry = "Binary" /\ result.returned /\ ~result.found
          /\ UNCHANGED env
    /\ entry' = "Setup"
    /\ bpc' = "done"
    /\ glr' = NoLocals /\ rel' = NoRelease /\ checksum' = <<>> /\ dl' = NoDownload /\ reqs' = <<>>
    /\ setup' = [setup EXCEPT !.pc = "getRuntime"]
    /\ UNCHANGED <<tool, disk, result>>
    /\ UNCHANGED rtVars
    /\ UNCHANGED fn

\* line 259: the steps of getRuntime
SetupGetRuntime ==
    /\ setup.pc = "getRuntime"
    /\ rt[1].pc # "done"
    /\ getRuntime(1)

\* SetupAfterRuntime, going on to the build whatever getRuntime returned
SetupAfterRuntimeIgnoresError ==
    /\ entry = "Setup"
    /\ setup.pc = "getRuntime"
    /\ rt[1].pc = "done"
    /\ setup' = [setup EXCEPT !.pc = "runBuild", !.newEnv = AppendPath(env, rt[1].path)]
    /\ UNCHANGED <<tool, env, bpc, entry, glr, rel, checksum, dl, reqs, disk, result>>
    /\ UNCHANGED rtVars
    /\ UNCHANGED fn

\* lines 260-264
SetupAfterRuntime ==
    /\ entry = "Setup"
    /\ setup.pc = "getRuntime"
    /\ rt[1].pc = "done"
    /\ IF rt[1].err # "nil"
       THEN setup' = [setup EXCEPT !.pc = "done",
                         !.ret = [returned |-> TRUE, envNil |-> TRUE, env |-> <<>>,
                                  err |-> rt[1].err]]
       ELSE setup' = [setup EXCEPT !.pc = "runBuild", !.newEnv = AppendPath(env, rt[1].path)]
    /\ UNCHANGED <<tool, env, bpc, entry, glr, rel, checksum, dl, reqs, disk, result>>
    /\ UNCHANGED rtVars
    /\ UNCHANGED fn

\* lines 265-269 and runBuild, lines 322-328: go build with the stripped env
RunBuild ==
    /\ entry = "Setup"
    /\ setup.pc = "runBuild"
    /\ \E ok \in BOOLEAN :
        setup' = [setup EXCEPT
                     !.pc = "done",
                     !.cmdEnv = stripGo(env \o setup.newEnv),
                     !.builds = @ + 1,
                     !.ret = IF ok
                             THEN [returned |-> TRUE, envNil |-> FALSE, env |-> setup.newEnv,
                                   err |-> "nil"]
                             ELSE [returned |-> TRUE, envNil |-> TRUE, env |-> <<>>,
                                   err |-> "build"]]
    /\ UNCHANGED <<tool, env, bpc, entry, glr, rel, checksum, dl, reqs, disk, result>>
    /\ UNCHANGED rtVars
    /\ UNCHANGED fn

\* the names of the credential helpers
HelperNames == {"file", "wincred", "pass"}

\* lines 272-280: BuildCredentialHelper is called; nothing is built for "file"
HelperCall ==
    /\ setup.pc = "idle"
    /\ bpc = "idle"
    /\ \E e \in Envs, h \in HelperNames :
        /\ env' = e
        /\ setup' = IF h = "file"
                     THEN [setup EXCEPT !.pc = "done", !.helper = h,
                              !.ret = [returned |-> TRUE, envNil |-> TRUE, env |-> <<>>,
                                       err |-> "nil"]]
                     ELSE [setup EXCEPT !.pc = "getRuntime", !.helper = h]
    /\ entry' = "BuildCredentialHelper"
    /\ bpc' = "done"
    /\ UNCHANGED <<tool, glr, rel, checksum, dl, reqs, disk, result>>
    /\ UNCHANGED rtVars
    /\ UNCHANGED fn

\* lines 282-286
HelperAfterRuntime ==
    /\ entry = "BuildCredentialHelper"
    /\ setup.pc = "getRuntime"
    /\ rt[1].pc = "done"
    /\ IF rt[1].err # "nil"
       THEN setup' = [setup EXCEPT !.pc = "done",
                         !.ret = [returned |-> TRUE, envNil |-> TRUE, env |-> <<>>,
                                  err |-> rt[1].err]]
       ELSE setup' = [setup EXCEPT !.pc = "helperBuild", !.newEnv = AppendPath(env, rt[1].path)]
    /\ UNCHANGED <<tool, env, bpc, entry, glr, rel, checksum, dl, reqs, disk, result>>
    /\ UNCHANGED rtVars
    /\ UNCHANGED fn

\* lines 288-295: go build of the helper with the stripped env
HelperBuild ==
    /\ entry = "BuildCredentialHelper"
    /\ setup.pc = "helperBuild"
    /\ \E ok \in BOOLEAN :
        setup' = [setup EXCEPT
                     !.pc = "done",
                     !.cmdEnv = stripGo(env \o setup.newEnv),
                     !.builds = @ + 1,
                     !.ret = [returned |-> TRUE, envNil |-> TRUE, env |-> <<>>,
                              err |-> IF ok THEN "nil" ELSE "build"]]
    /\ UNCHANGED <<tool, env, bpc, entry, glr, rel, checksum, dl, reqs, disk, result>>
    /\ UNCHANGED rtVars
    /\ UNCHANGED fn

BuildCredentialHelper ==
    \/ HelperCall
    \/ HelperAfterRuntime
    \/ HelperBuild

Setup ==
    \/ SetupCall
    \/ SetupGetRuntime
    \/ SetupAfterRuntime
    \/ RunBuild

(***************************************************************************)
(* Functions of the package called on their own.                           *)
(***************************************************************************)
NoCall == [op |-> "none", in |-> <<>>, out |-> <<>>]
FnInit == fn = NoCall

toolX == <<"t", "o", "o", "l", "X">>
abc123 == <<"a", "b", "c", "1", "2", "3">>

\* the releases getChecksum is called with
Releases == {Release(<<"a">>, r, <<"v", "1">>) : r \in {<<"r">>, <<"q">>, toolX}}

\* one line per platform
PlatformManifest ==
    <<"a", "b", "c", "1", "2", "3", " ", " ", "t", "o", "o", "l", "X", "-", "l", "i", "n", "u", "x", "-", "a", "m", "d", "6", "4", "\n", "d", "e", "f", "4", "5", "6", " ", " ", "t", "o", "o", "l", "X", "-", "d", "a", "r", "w", "i", "n", "-", "a", "r", "m", "6", "4", "\n">>
\* two lines for the same binary
TwiceManifest ==
    <<"a", "a", " ", " ", "r", "-", "l", "i", "n", "u", "x", "-", "a", "m", "d", "6", "4", "\n", "b", "b", " ", " ", "r", "-", "l", "i", "n", "u", "x", "-", "a", "m", "d", "6", "4", "\n">>

ChecksumResponses ==
    ManifestResponses \cup
    {[err |-> FALSE, StatusCode |-> 200, body |-> m] : m \in {<<>>, PlatformManifest, TwiceManifest}}

\* getChecksum(ctx, rel), with the answer to its request
CallGetChecksum ==
    /\ \E resp \in ChecksumResponses, r \in Releases :
        fn' = [op |-> "getChecksum", in |-> [resp |-> resp, rel |-> r],
               out |-> getChecksum(resp, r)]
    /\ UNCHANGED <<rtVars, binVars>>

\* the platforms a Runtime may run on
OSes == {GOOS, <<"d", "a", "r", "w", "i", "n">>, <<"w", "i", "n", "d", "o", "w", "s">>}
Archs == {GOARCH, <<"a", "r", "m">>, <<"a", "r", "m", "6", "4">>}

\* contents of digests.txt: the embedded one; arm64 before arm; arm64 alone;
\* a row with one space; nothing; darwin alone
Indexes ==
    {releasesData,
     <<"d", "4", " ", " ", "g", "o", "1", ".", "l", "i", "n", "u", "x", "-", "a", "r", "m", "6", "4", ".", "t", "g", "z", "\n", "d", "2", " ", " ", "g", "o", "1", ".", "l", "i", "n", "u", "x", "-", "a", "r", "m", ".", "t", "g", "z", "\n">>,
     <<"d", "4", " ", " ", "g", "o", "1", ".", "l", "i", "n", "u", "x", "-", "a", "r", "m", "6", "4", ".", "t", "g", "z", "\n">>,
     <<"d", "1", " ", "g", "o", "1", ".", "l", "i", "n", "u", "x", "-", "a", "m", "d", "6", "4", ".", "t", "g", "z", "\n">>,
     <<>>,
     <<"d", "5", " ", " ", "g", "o", "1", ".", "d", "a", "r", "w", "i", "n", "-", "a", "r", "m", "6", "4", ".", "t", "g", "z", "\n">>}

\* getReleaseAndDigest, for an index and a platform
CallGetReleaseAndDigest ==
    /\ \E data \in Indexes, v \in Versions, goos \in OSes, goarch \in Archs :
        fn' = [op |-> "getReleaseAndDigest",
               in |-> [data |-> data, version |-> v, goos |-> goos, goarch |-> goarch],
               out |-> scanReleases(data, releaseKey(v, goos, goarch))]
    /\ UNCHANGED <<rtVars, binVars>>

Init == RtInit /\ BinInit /\ FnInit

Next == \E p \in Procs : getRuntime(p)

Spec == Init /\ [][Next]_vars

\* the prebuilt-binary path alone
NextBinary == GetLatestReleaseCall \/ getLatestRelease \/ Binary

SpecBinary == Init /\ [][NextBinary]_vars

\* one tool: Binary, and Setup when Binary found nothing, or Setup alone
NextTool == Binary \/ getLatestRelease \/ Setup \/ BuildCredentialHelper

SpecTool == Init /\ [][NextTool]_vars

\* getRuntime, with probes of the final path that fail
NextProbe == \E p \in Procs : getRuntime(p) \/ GetRuntimeStatFails(p)
SpecProbe == Init /\ [][NextProbe]_vars

\* getRuntime, with processes killed during the extraction
NextCrash == \E p \in Procs : getRuntime(p) \/ Kill(p)
SpecCrash == Init /\ [][NextCrash]_vars

\* the functions called on their own
NextFn == CallGetChecksum \/ CallGetReleaseAndDigest
SpecFn == Init /\ [][NextFn]_vars

RtTypeOK ==
    /\ target.exists \in BOOLEAN /\ tmp.exists \in BOOLEAN
    /\ \A p \in Procs : rt[p].pc \in {"idle", "mkdir", "extract", "write", "rename", "cleanup", "done"}
    /\ totalExtract \in 0..MaxCalls

(***************************************************************************)
(* The toolchain cache: properties.                                        *)
(***************************************************************************)
\* the path getRuntime returns for the one (url, digest) pair of the index
ExpectedBinDir ==
    LET rd == Resolved[<<"1">>]
    IN  <<dataRoot, "golang", <<rd.url, rd.digest>>, "go", "bin">>

\* C1: under any interleaving of getRuntime invocations for one (url, digest)
\* pair, a directory is at the final path iff an extraction was committed by
\* rename, and the directory at the final path holds every file of the archive:
\* no partially extracted tree is visible there.
C1_NoPartialTreeAtFinalPath ==
    /\ target.exists <=> committed
    /\ target.exists => Complete(target)

\* C2: an invocation that ran alone and started with no directory at the final
\* path leaves no staging directory when it has returned, and when MkdirAll,
\* Extract or Rename failed in it, it returned an error and no directory is at
\* the final path.
C2_AloneFailureLeavesNothing ==
    \A p \in Procs :
        (rt[p].pc = "done" /\ hist[p].alone /\ ~hist[p].startFinal) =>
            /\ ~tmp.exists
            /\ hist[p].fault \in {"mkdir", "transport", "integrity", "extract", "rename"} =>
                   (rt[p].err # "nil" /\ ~target.exists)
            /\ rt[p].err = "nil" => Complete(target)

\* an invocation that ran alone failed while extracting, after its first file
\* was written
C2_Witness ==
    \E p \in Procs :
        /\ rt[p].pc = "done" /\ hist[p].alone /\ ~hist[p].startFinal
        /\ hist[p].fault = "extract" /\ rt[p].next > 1

C4_ExtractAtMostOnceInTotal == totalExtract <= 1

\* C4, amended: one invocation calls download.Extract at most once, and an
\* invocation that starts when a directory is at the final path never calls it.
C4_ExtractOncePerMiss ==
    \A p \in Procs :
        /\ hist[p].nExtract <= 1
        /\ hist[p].startFinal => hist[p].nExtract = 0
        /\ hist[p].nExtract = 1 => hist[p].nMkdir = 1

\* two invocations each ran Extract, and a later one started on the committed
\* directory
C4_Witness ==
    \E p \in Procs :
        /\ rt[p].pc = "done" /\ hist[p].startFinal /\ hist[p].nExtract = 0
        /\ totalExtract = 2

(***************************************************************************)
(* The prebuilt-binary path: properties.                                   *)
(***************************************************************************)
\* the kinds of the requests issued, in order
Kinds == [i \in DOMAIN reqs |-> reqs[i].kind]
Issued(kind) == \E i \in DOMAIN reqs : reqs[i].kind = kind

\* the body was wholly written and its lowercase-hex digest is the checksum
Verified ==
    /\ disk.file.exists /\ disk.file.whole
    /\ EncodeToString(sha256(disk.file.bytes)) = checksum

\* the body of the binary was written and its digest is not the checksum
Mismatch ==
    /\ disk.file.exists /\ disk.file.whole
    /\ EncodeToString(sha256(disk.file.bytes)) # checksum

C6_NilOnlyIfVerified ==
    dl.returned =>
        /\ dl.err = "nil" => (Verified /\ disk.file.mode = "0755")
        /\ (~dl.compared \/ dl.got # checksum) => dl.err # "nil"

\* C7: in downloadBin a status other than 200 is reported as the bad-status
\* error of get, before the bin directory or the file is touched; the
\* checksum-mismatch error is reported exactly when the comparison was reached,
\* after the whole body was written, and found a different digest.
C7_BadStatusAndMismatchDiffer ==
    dl.returned =>
        /\ dl.status \notin {0, 200} <=> dl.err = "bad HTTP status code"
        /\ dl.err = "bad HTTP status code" => (~disk.binDir /\ ~disk.file.exists)
        /\ dl.err = "checksum mismatch" <=> (dl.compared /\ dl.got # checksum)
        /\ dl.err = "checksum mismatch" =>
               (dl.status = 200 /\ disk.file.whole /\ disk.file.bytes = dl.payload)

\* downloadBin met a digest other than the expected one on a 200 answer
C7_Witness ==
    /\ dl.returned /\ dl.err = "checksum mismatch" /\ dl.status = 200
    /\ dl.got = <<"b", "b">> /\ checksum = <<"a", "a">>

\* C8: Binary never returns an error. It returns found with the caller's env
\* only after the release was resolved, then a non-empty checksum was obtained,
\* then downloadBin returned nil; otherwise it returns (false, nil, nil), and no
\* later step ran: without a release nothing but the release requests was
\* issued, without a checksum the binary was never requested nor a file touched.
C8_BinaryFoundOnlyAfterAllSteps ==
    /\ result.err = "nil"
    /\ Issued("download") => (rel.ok /\ checksum # <<>> /\ Issued("checksums"))
    /\ Issued("checksums") => rel.ok
    /\ (entry = "Binary" /\ ~IsGit(tool)) => (reqs = <<>> /\ ~rel.ok)
    /\ (result.returned /\ result.found) =>
           /\ result.env = env /\ ~result.envNil
           /\ IsGit(tool) /\ rel.ok /\ checksum # <<>>
           /\ dl.returned /\ dl.err = "nil"
           /\ Kinds \in {<<"tags", "checksums", "download">>,
                         <<"tags", "latest", "checksums", "download">>}
    /\ (result.returned /\ ~result.found) =>
           /\ result.envNil /\ result.env = <<>>
           /\ ~IsGit(tool) \/ ~rel.ok \/ checksum = <<>> \/ (dl.returned /\ dl.err # "nil")
           /\ checksum = <<>> => (dl = NoDownload /\ disk = [binDir |-> FALSE, file |-> NoFile])

\* Binary reported the binary found, for the caller's non-empty env
C8_Witness ==
    /\ result.returned /\ result.found /\ result.env # <<>>
    /\ Kinds = <<"tags", "latest", "checksums", "download">>

\* the number of "/" in s
Slashes(s) == Cardinality({i \in 1..Len(s) : s[i] = "/"})

\* s without a final ".git"
WithoutDotGit(s) ==
    IF Len(s) >= 4 /\ s[Len(s) - 3] = "." /\ s[Len(s) - 2] = "g"
       /\ s[Len(s) - 1] = "i" /\ s[Len(s)] = "t"
    THEN SubSeq(s, 1, Len(s) - 4) ELSE s

\* the repository reference is absent, or its root is not under
\* https://github.com/, or the root without ".git" is not host/account/repository
Unresolvable(t) ==
    \/ t.Repo.nil
    \/ Len(t.Repo.Root) < Len(githubRoot)
    \/ \E i \in 1..Len(githubRoot) : t.Repo.Root[i] # githubRoot[i]
    \/ Slashes(WithoutDotGit(t.Repo.Root)) # 4

\* C9: for such a tool getLatestRelease returns not resolvable and has issued
\* no request.
C9_UnresolvableRootNoRequest ==
    (bpc = "released" /\ Unresolvable(tool)) => (~rel.ok /\ reqs = <<>>)

\* getLatestRelease returned for a github root with one segment too many
C9_Witness ==
    /\ bpc = "released" /\ ~tool.Repo.nil
    /\ HasPrefix(tool.Repo.Root, githubRoot)
    /\ Slashes(WithoutDotGit(tool.Repo.Root)) = 5

\* the tags of the decoded tag list whose commit is the revision asked for
Matching == {i \in DOMAIN glr.tags : glr.tags[i].Sha = tool.Repo.Revision}

\* C10: when getLatestRelease returns and the decoded tag list holds a tag of
\* the revision, the release's label is the name of the first such tag and the
\* latest-release request was not issued; that request is issued only after a
\* tag list was decoded in which no tag matches.
C10_FirstMatchingTagWins ==
    /\ (bpc = "released" /\ glr.decoded /\ Matching # {}) =>
           /\ rel.ok
           /\ \E i \in Matching :
                  /\ \A j \in Matching : i <= j
                  /\ rel.label = glr.tags[i].Name
           /\ ~Issued("latest")
    /\ (bpc \in {"latest", "released"} /\ (bpc = "latest" \/ Issued("latest"))) =>
           (Issued("tags") /\ glr.decoded /\ Matching = {})

\* two tags of the revision with different names; the first one was returned
C10_Witness ==
    /\ bpc = "released" /\ glr.decoded /\ Matching = {1, 2}
    /\ glr.tags[1].Name # glr.tags[2].Name
    /\ rel.label = glr.tags[1].Name

\* a line of a checksum manifest is for the binary name
Qualifies(line, name) ==
    LET f == Fields(line) IN Len(f) = 2 /\ f[2] = name

\* C11: getChecksum returns the first field of the first line with exactly two
\* fields whose second is the platform binary name, and the empty string when
\* no line is so or the fetch fails; the manifest of the two platforms gives
\* abc123 for toolX on linux/amd64 and nothing for a platform it does not list.
C11_FirstQualifyingLine ==
    fn.op = "getChecksum" =>
        LET resp  == fn.in.resp
            name  == fn.in.rel.repo \o <<"-">> \o GOOS \o <<"-">> \o GOARCH
            lines == ScanLines(resp.body)
            fetched == ~resp.err /\ resp.StatusCode = 200
        IN  /\ ~fetched => fn.out = <<>>
            /\ fetched =>
                  \/ /\ \A i \in 1..Len(lines) : ~Qualifies(lines[i], name)
                     /\ fn.out = <<>>
                  \/ \E i \in 1..Len(lines) :
                         /\ Qualifies(lines[i], name)
                         /\ \A j \in 1..(i - 1) : ~Qualifies(lines[j], name)
                         /\ fn.out = Fields(lines[i])[1]
            /\ (fetched /\ resp.body = PlatformManifest) =>
                  fn.out = IF fn.in.rel.repo = toolX THEN abc123 ELSE <<>>

\* getChecksum read the manifest of the two platforms for toolX
C11_Witness ==
    /\ fn.op = "getChecksum" /\ fn.in.resp.body = PlatformManifest
    /\ fn.in.rel.repo = toolX /\ fn.out = abc123


\* C12 as stated: with the entry "<digest>  <version>.linux-amd64.tgz" in the
\* index, an invocation for that version that runs alone with nothing at the
\* final path resolves the entry, extracts once, renames once and returns a path
\* that ends in go/bin.
C12_PlainEntryResolves ==
    \A p \in Procs :
        (rt[p].pc = "done" /\ rt[p].version = <<"2">>
            /\ hist[p].alone /\ ~hist[p].startFinal /\ hist[p].fault = "none") =>
           /\ rt[p].err = "nil"
           /\ hist[p].nExtract = 1 /\ hist[p].nRename = 1
           /\ Len(rt[p].path) >= 2
           /\ SubSeq(rt[p].path, Len(rt[p].path) - 1, Len(rt[p].path)) = <<"go", "bin">>

go1Archive == <<"g", "o", "1", ".", "l", "i", "n", "u", "x", "-", "a", "m", "d", "6", "4", ".", "t", "g", "z">>

\* C12, amended: the entry of the index is "<digest>  go<version>.linux-amd64.tgz";
\* an entry without the "go" is not found. With it, the URL is
\* https://go.dev/dl/go<version>.linux-amd64.tgz with that digest, and an
\* invocation that runs alone with nothing at the final path and meets no
\* failure creates the staging directory once, extracts once, renames once and
\* returns <final path>/go/bin.
C12_IndexedEntryResolves ==
    /\ Resolved[<<"1">>] = [ok |-> TRUE, panic |-> FALSE, url |-> downloadURL \o go1Archive,
                            digest |-> <<"d", "1">>]
    /\ ~Resolved[<<"2">>].ok
    /\ \A p \in Procs :
        /\ (rt[p].pc = "done" /\ rt[p].version = <<"2">>) => rt[p].err = "noRelease"
        /\ (rt[p].pc = "done" /\ rt[p].version = <<"1">>
                /\ hist[p].alone /\ ~hist[p].startFinal /\ hist[p].fault = "none") =>
               /\ rt[p].err = "nil"
               /\ hist[p].nMkdir = 1 /\ hist[p].nExtract = 1 /\ hist[p].nRename = 1
               /\ rt[p].path = <<dataRoot, "golang", hashID(downloadURL \o go1Archive, <<"d", "1">>), "go", "bin">>
               /\ Complete(target)

\* an invocation for the indexed version ran alone on an empty cache and
\* returned the toolchain
C12_Witness ==
    \E p \in Procs :
        /\ rt[p].pc = "done" /\ rt[p].version = <<"1">> /\ rt[p].err = "nil"
        /\ hist[p].alone /\ ~hist[p].startFinal /\ hist[p].nRename = 1


\* C13: in one Setup the build is started only after getRuntime returned with
\* no error, with a directory at the final path, and is run at most once; when
\* getRuntime fails no build is run and Setup returns that error and no
\* environment; when the build fails Setup returns the build error and no
\* environment, and the build is not run again.
C13_BuildOnceAfterRuntime ==
    entry \in {"none", "Binary", "Setup"} =>
    /\ setup.builds <= 1
    /\ (setup.pc = "runBuild" \/ setup.builds = 1) =>
           /\ rt[1].pc = "done" /\ rt[1].err = "nil"
           /\ target.exists
           /\ rt[1].path = ExpectedBinDir
    /\ setup.pc \in {"idle", "getRuntime"} => (setup.builds = 0 /\ ~setup.ret.returned)
    /\ setup.ret.returned =>
           /\ setup.pc = "done" /\ rt[1].pc = "done"
           /\ rt[1].err # "nil" =>
                  (setup.builds = 0 /\ setup.ret.err = rt[1].err /\ setup.ret.envNil)
           /\ rt[1].err = "nil" => setup.builds = 1
           /\ setup.ret.err = "build" => setup.ret.envNil
           /\ setup.ret.err = "nil" => (~setup.ret.envNil /\ setup.ret.env = setup.newEnv)

\* a Setup whose getRuntime made the final directory and whose build failed
C13_Witness ==
    /\ setup.ret.returned /\ setup.ret.err = "build" /\ setup.builds = 1 /\ target.exists



\* C14: when the probe of the final path fails with another error than "does
\* not exist", getRuntime returns that error and the invocation creates no
\* staging directory, extracts nothing and renames nothing; only "does not
\* exist" starts the provisioning.
C14_ProbeErrorIsReturned ==
    \A p \in Procs :
        /\ hist[p].statErr \in StatErrors =>
               /\ rt[p].pc = "done" /\ rt[p].err = hist[p].statErr /\ rt[p].path = NoPath
               /\ hist[p].nMkdir = 0 /\ hist[p].nExtract = 0 /\ hist[p].nRename = 0
        /\ (rt[p].pc \in {"mkdir", "extract", "write", "rename"} \/ hist[p].nMkdir > 0) =>
               (hist[p].statErr = "none" /\ ~hist[p].startFinal)

\* the probe failed with EACCES while a complete toolchain was at the final
\* path, and the invocation returned the error
C14_Witness ==
    \E p \in Procs :
        /\ rt[p].pc = "done" /\ rt[p].err = "EACCES" /\ hist[p].statErr = "EACCES"
        /\ hist[p].startFinal /\ Complete(target)


\* the requests of one kind issued so far
Count(kind) == Cardinality({i \in DOMAIN reqs : reqs[i].kind = kind})

\* C15: one getLatestRelease issues the tag-list request at most once and the
\* latest-release request at most once, the tag-list request first; when the
\* tag-list request fails (error, status other than 200, body that does not
\* decode) the release is not resolvable, no error is returned, and the
\* latest-release request is not issued.
C15_RequestsOnceTagsFirst ==
    /\ Count("tags") <= 1 /\ Count("latest") <= 1
    /\ reqs # <<>> => Kinds[1] = "tags"
    /\ Issued("latest") => Kinds[2] = "latest"
    /\ bpc = "latest" => (Kinds = <<"tags">> /\ glr.decoded)
    /\ bpc = "released" =>
           /\ (Issued("tags") /\ ~glr.decoded) => (~rel.ok /\ Kinds = <<"tags">>)
           /\ Issued("latest") => glr.decoded
           /\ reqs = <<>> => ~rel.ok
    /\ result.err = "nil"

\* the tag-list request failed, and getLatestRelease returned
C15_Witness ==
    /\ bpc = "released" /\ entry = "getLatestRelease"
    /\ Kinds = <<"tags">> /\ ~glr.decoded /\ ~rel.ok


\* C16 as stated: when no tag matches and the answer to the latest-release
\* request has no usable redirect (no Location, a Location whose last segment
\* is empty, a status other than 302) the release is not resolvable; so every
\* release getLatestRelease reports as resolved, from a tag or from the
\* redirect, has a label that is not empty.
C16_ResolvedLabelNotEmpty ==
    bpc = "released" =>
        /\ (Issued("latest") /\ rel.ok) => rel.label # <<>>
        /\ rel.ok => rel.label # <<>>


\* C17 as stated: after downloadBin returned, the destination file exists only
\* if the comparison of the digests was reached; a status other than 200 makes
\* neither the bin directory nor the file, and a failed copy of the body leaves
\* no file.
C17_FileOnlyIfCompared ==
    dl.returned =>
        /\ dl.err = "bad HTTP status code" => (~disk.binDir /\ ~disk.file.exists)
        /\ dl.err = "copy" => ~disk.file.exists
        /\ disk.file.exists => dl.compared


\* an entry of the environment that starts with "GO"
IsGo(x) == Len(x) >= 2 /\ x[1] = "G" /\ x[2] = "O"

\* C18: the environment handed to the build command, in runBuild and in
\* BuildCredentialHelper, is the input (env followed by newEnv) without the
\* entries that start with "GO": none of them is left, the others are all
\* there in their order, and the PATH entry that leads to <final path>/go/bin
\* is among them.
C18_BuildEnvWithoutGo ==
    setup.builds >= 1 =>
        LET input == env \o setup.newEnv
        IN  /\ setup.cmdEnv = SelectSeq(input, LAMBDA x : ~IsGo(x))
            /\ \A i \in DOMAIN setup.cmdEnv : ~IsGo(setup.cmdEnv[i])
            /\ Len(setup.cmdEnv) = Cardinality({i \in DOMAIN input : ~IsGo(input[i])})
            /\ \E i \in DOMAIN setup.cmdEnv :
                   /\ HasPrefix(setup.cmdEnv[i], pathKey)
                   /\ setup.cmdEnv[i][Len(pathKey) + 1] = ToString(ExpectedBinDir)

\* a credential helper was built with an env that had GO entries and the same
\* entry twice
C18_Witness ==
    /\ entry = "BuildCredentialHelper" /\ setup.builds = 1 /\ setup.helper = "wincred"
    /\ Len(env) = 4 /\ \E i \in DOMAIN env : IsGo(env[i])
    /\ Len(setup.cmdEnv) < Len(env \o setup.newEnv)


\* C19 as stated: after an invocation was killed during the extraction and left
\* a partly filled staging directory, a later invocation finds the staging
\* directory empty when its extraction starts, and no file the killed attempt
\* left is ever at the final path.
C19_StagingEmptyAtExtract ==
    /\ \A p \in Procs :
           (rt[p].pc = "extract" /\ hist[p].alone) => tmp.files = NoFiles
    /\ \A f \in Files : target.files[f] # Crashed


\* the file of a row of the index
FileOf(line) == TrimSpace(Split(line, <<" ", " ">>)[2])

\* the row is the archive of the platform: after the key comes the "." of the
\* archive type, and not more letters of another architecture
ForPlatform(line, key) ==
    /\ Len(Split(line, <<" ", " ">>)) >= 2
    /\ HasPrefix(FileOf(line), key \o <<".">>)

\* C20 as stated: when getReleaseAndDigest succeeds, the row it returns is the
\* archive of the requested version, OS and architecture, and never one of
\* another platform whose name starts with the same key (arm64 for arm); when
\* no row of the index is for the platform it fails with an error.
C20_ExactPlatformRow ==
    fn.op = "getReleaseAndDigest" =>
        LET key   == <<"g", "o">> \o fn.in.version \o <<".">> \o fn.in.goos \o <<"-">> \o fn.in.goarch
            lines == ScanLines(fn.in.data)
        IN  /\ fn.out.ok => HasPrefix(TrimPrefix(fn.out.url, downloadURL), key \o <<".">>)
            /\ (\A i \in 1..Len(lines) : ~ForPlatform(lines[i], key)) =>
                   (~fn.out.ok /\ ~fn.out.panic)

=============================================================================
